---- MODULE Spec2Model ----
(***************************************************************************)
(* A model of src/main.cc: the text normalizer of generate(opts, input),   *)
(* the markov_chain engine (constructor and generate) and the batch loop   *)
(* of main.  Characters are numbers: bytes before to_utf32, code points    *)
(* after it.                                                               *)
(***************************************************************************)
EXTENDS Integers, Sequences, FiniteSets, TLC

\* ------------------------------------------------------------- bounds
MaxLen == 3        \* bytes in a file given to the batch
MaxDetLen == 3     \* bytes in a file of the two-engine runs
MaxNormLen == 3    \* bytes in a raw input of the normalizer runs
MaxOrder == 2      \* --order ranges over 1..MaxOrder
MaxLength == 2     \* --length ranges over 0..MaxLength
MaxLines == 2      \* --lines ranges over 1..MaxLines
MaxMinLine == 2    \* --min-line ranges over 0..MaxMinLine
MaxFiles == 2      \* number of -f inputs
MaxDraws == 6      \* calls of rng() one engine may make
MaxRng == 3        \* rng() returns a value of 0..MaxRng
MaxDetRng == 1     \* the same in the two-engine runs
MaxSeed == 1       \* seeds range over 0..MaxSeed

\* ------------------------------------------------- program constants
NUL == 0
NL == 10
SP == 32
TAB == 9

\* The allow-list of --ascii.
ascii_chars ==
    (97..122) \cup (65..90) \cup {39, 34, 46, 44, 45, 95, 58, 59, 33, 63, 40, 41, 32}

Min(a, b) == IF a < b THEN a ELSE b

SeqsUpTo(S, n) == UNION {[1..m -> S] : m \in 0..n}

\* ------------------------------------------------------ string helpers
\* std::basic_string::substr(pos, n) for pos <= size.
substr(str, pos, n) == SubSeq(str, pos + 1, Min(pos + n, Len(str)))

\* std::tolower in the C locale: only A-Z change.
tolower(c) == IF c \in 65..90 THEN c + 32 ELSE c

to_lower(str) == [k \in 1..Len(str) |-> tolower(str[k])]

\* The loop of split_lines: i is the scan position, start the line's start.
RECURSIVE split_loop(_, _, _, _)
split_loop(str, i, start, ret) ==
    IF i < Len(str)
    THEN IF str[i + 1] = NL
         THEN split_loop(str, i + 1, i + 1, Append(ret, substr(str, start, i - start)))
         ELSE split_loop(str, i + 1, start, ret)
    ELSE IF start < Len(str) THEN Append(ret, substr(str, start, Len(str) - start))
         ELSE ret

split_lines(str) == split_loop(str, 0, 0, <<>>)

\* fmt::join(lines, "\n").
RECURSIVE join(_)
join(lines) ==
    IF Len(lines) = 0 THEN <<>>
    ELSE IF Len(lines) = 1 THEN lines[1]
    ELSE lines[1] \o <<NL>> \o join(Tail(lines))

\* std::erase_if(input_lines, line.empty() || line.size() < min_line).
KeepLine(line, min_line) == ~(Len(line) = 0 \/ Len(line) < min_line)

RemoveShortLines(input, min_line) ==
    IF min_line # 0
    THEN join(SelectSeq(split_lines(input), LAMBDA line : KeepLine(line, min_line)))
    ELSE input

\* The end of the C string strchr scans: the first NUL byte, or the size.
CStrLen(str) ==
    IF \E k \in 1..Len(str) : str[k] = NUL
    THEN (CHOOSE k \in 1..Len(str) : str[k] = NUL /\ \A j \in 1..(k - 1) : str[j] # NUL) - 1
    ELSE Len(str)

\* A folding that stops after the first newline.
FoldFirstNewlineOnly(input) ==
    [k \in 1..Len(input) |->
        IF input[k] = NL /\ k <= CStrLen(input) /\ \A j \in 1..(k - 1) : input[j] # NL
        THEN SP ELSE input[k]]

\* while (c = strchr(c, '\n'), c) *c = ' ';
ReplaceNewlines(input) ==
    [k \in 1..Len(input) |->
        IF input[k] = NL /\ k <= CStrLen(input) THEN SP ELSE input[k]]

\* std::erase_if(input, !ascii_chars.contains(c)).
RemoveNonAscii(input, ascii) ==
    IF ascii THEN SelectSeq(input, LAMBDA c : c \in ascii_chars) ELSE input

\* Lines 153-171 of generate(opts, input): the text the engine is trained on.
Normalize(input, min_line, ascii) ==
    to_lower(RemoveNonAscii(ReplaceNewlines(RemoveShortLines(input, min_line)), ascii))

\* ------------------------------------------------------------- UTF-8
\* std::wstring_convert<codecvt_utf8<char32_t>>::from_bytes: one- and two-byte
\* forms (no byte of the model's alphabets starts a longer one); ok is FALSE
\* where from_bytes throws std::range_error.
RECURSIVE from_bytes(_)
from_bytes(bytes) ==
    IF Len(bytes) = 0 THEN [ok |-> TRUE, str |-> <<>>]
    ELSE IF bytes[1] < 128
    THEN LET rest == from_bytes(Tail(bytes))
         IN  [ok |-> rest.ok, str |-> <<bytes[1]>> \o rest.str]
    ELSE IF bytes[1] \in 194..223 /\ Len(bytes) >= 2 /\ bytes[2] \in 128..191
    THEN LET rest == from_bytes(Tail(Tail(bytes)))
         IN  [ok |-> rest.ok,
              str |-> <<(bytes[1] - 192) * 64 + (bytes[2] - 128)>> \o rest.str]
    ELSE [ok |-> FALSE, str |-> <<>>]

to_utf32(str) == from_bytes(str)

\* to_bytes, for code points below 0x800.
RECURSIVE to_utf8(_)
to_utf8(str) ==
    IF Len(str) = 0 THEN <<>>
    ELSE IF str[1] < 128 THEN <<str[1]>> \o to_utf8(Tail(str))
    ELSE <<192 + (str[1] \div 64), 128 + (str[1] % 64)>> \o to_utf8(Tail(str))

\* trim(str) leaves its second loop only at a character that is neither a space
\* nor a tab; on a string of blanks alone i wraps below zero and str[i] is read
\* out of bounds.
TrimInBounds(str) == \E k \in 1..Len(str) : str[k] # SP /\ str[k] # TAB

\* ---------------------------------------------------- the n-gram table
\* chain is the unordered_map as its node list, in iteration order: a sequence
\* of [first |-> key, second |-> successors].
find(chain, key) ==
    IF \E j \in 1..Len(chain) : chain[j].first = key
    THEN CHOOSE j \in 1..Len(chain) : chain[j].first = key
    ELSE 0

\* chain[key].push_back(ch): a new node goes where the build's hash table puts
\* it (layout), an old one keeps its place.
push_back(chain, key, ch, layout) ==
    LET j == find(chain, key)
    IN  IF j # 0 THEN [chain EXCEPT ![j].second = Append(@, ch)]
        ELSE IF layout = "front" THEN <<[first |-> key, second |-> <<ch>>]>> \o chain
        ELSE Append(chain, [first |-> key, second |-> <<ch>>])

\* A key that runs to the end of the text.
ngram_rest(text, i, order) == substr(text, i, Len(text))

\* text.substr(i, order)
ngram_at(text, i, order) == substr(text, i, order)

\* The last character of the key instead of the one after it.
successor_early(text, i, order) == text[i + order]

\* text[i + order]
successor_at(text, i, order) == text[i + order + 1]

\* The constructor's loop from index i on, for text.size() >= order.
RECURSIVE construct_loop(_, _, _, _, _)
construct_loop(text, order, i, chain, layout) ==
    IF i < Len(text) - order
    THEN construct_loop(text, order, i + 1,
             push_back(chain, ngram_at(text, i, order), successor_at(text, i, order), layout),
             layout)
    ELSE chain

\* The rng is seeded from the entropy source whatever seed was given.
rng_seed_entropy(seed, entropy) == entropy

\* rng.seed(seed): the stream the engine draws from.
rng_seed(seed, entropy) == seed

\* markov_chain(text, order, _seed) for text.size() >= order.
markov_chain(text, order, seed, entropy, layout) ==
    [order |-> order,
     chain |-> construct_loop(text, order, 0, <<>>, layout),
     seed |-> seed,
     stream |-> rng_seed(seed, entropy),
     draws |-> 0]

\* chain[ngram] in place of chain.find(ngram): a missing key is inserted.
index_effect(chain, ngram) ==
    IF find(chain, ngram) = 0 THEN Append(chain, [first |-> ngram, second |-> <<>>])
    ELSE chain

\* chain.find(ngram) leaves the table as it is.
find_effect(chain, ngram) == chain

\* The window kept one position behind.
window_late(result, i, order) == substr(result, i, order)

\* ngram = result.substr(i + 1, order)
next_window(result, i, order) == substr(result, i + 1, order)

\* ngram.starts_with(' ')
starts_with_space(ngram) == Len(ngram) > 0 /\ ngram[1] = SP

\* ----------------------------------------------------------- the state
VARIABLES
    opts,      \* the parsed command line
    layout,    \* where this build's unordered_map links a new node
    fileIdx,   \* main: the -f inputs already handed to generate(opts, input)
    corpus,    \* generate(opts, input): str, the code points given to the engine
    mc,        \* the markov_chain: order, chain, seed, and rng as (stream, draws)
    line,      \* generate(opts, input): i of the loop over --lines
    ngram,     \* markov_chain::generate: ngram
    result,    \* markov_chain::generate: result
    i,         \* markov_chain::generate: i of the extension loop
    pc,        \* where the program is
    printed,   \* lines written to stdout
    log,       \* what an observer of the run has written down
    mt         \* the values std::mt19937 has returned so far, per seed

vars == <<opts, layout, fileIdx, corpus, mc, line, ngram, result, i, pc, printed, log, mt>>

NoSeed == -1
Seeds == 0..MaxSeed
RngValues == 0..MaxRng

\* The bytes of the batch's files: a space, 'a', and the two bytes of U+00E9.
FileBytes == {SP, 97, 195, 169}
Inputs == SeqsUpTo(FileBytes, MaxLen)

\* The bytes of the normalizer's raw inputs.
NormBytes == {NUL, NL, SP, 49, 65, 97}
NormInputs == SeqsUpTo(NormBytes, MaxNormLen)

Opts ==
    [order : 1..MaxOrder, length : 0..MaxLength, lines : 1..MaxLines,
     min_line : 0..MaxMinLine, ascii : BOOLEAN, dump : BOOLEAN,
     seed : {NoSeed} \cup Seeds]

NoEngine == [order |-> 0, chain |-> <<>>, seed |-> 0, stream |-> 0, draws |-> 0]

Layouts == {"front", "back"}

InitOf(optset) ==
    /\ opts \in optset
    /\ layout \in Layouts
    /\ fileIdx = 0
    /\ corpus = <<>>
    /\ mc = NoEngine
    /\ line = 0
    /\ ngram = <<>>
    /\ result = <<>>
    /\ i = 0
    /\ pc = "main"
    /\ printed = 0
    /\ log = <<>>
    /\ mt = [s \in Seeds |-> <<>>]

\* auto lower = to_lower(input), after the in-place steps.
Lower(input) == Normalize(input, opts.min_line, opts.ascii)

\* opts.has<"--seed">() ? size_t(opts.get<"--seed">()) : size_t(std::random_device()())
SeedArg(device) == IF opts.seed # NoSeed THEN opts.seed ELSE device

\* --dump-input: print the processed text and return to main's loop.
DumpInput(obs, inputs) ==
    /\ pc = "main" /\ fileIdx < MaxFiles
    /\ opts.dump
    /\ \E input \in inputs :
        log' = IF obs THEN Append(log, Lower(input)) ELSE log
    /\ printed' = printed + 1
    /\ fileIdx' = fileIdx + 1
    /\ UNCHANGED <<opts, layout, corpus, mc, line, ngram, result, i, pc, mt>>

\* to_utf32(lower) throws std::range_error; nothing catches it.
EncodingError(inputs) ==
    /\ pc = "main" /\ fileIdx < MaxFiles
    /\ ~opts.dump
    /\ \E input \in inputs : ~to_utf32(Lower(input)).ok
    /\ pc' = "terminated"
    /\ UNCHANGED <<opts, layout, fileIdx, corpus, mc, line, ngram, result, i, printed, log, mt>>

\* generate(opts, input) up to the loop over --lines, for str.size() >= order.
Build(obs, inputs) ==
    /\ pc = "main" /\ fileIdx < MaxFiles
    /\ ~opts.dump
    /\ \E input \in inputs, device \in Seeds, entropy \in Seeds :
        LET str == to_utf32(Lower(input))
        IN  /\ str.ok
            /\ Len(str.str) >= opts.order
            /\ corpus' = str.str
            /\ mc' = markov_chain(str.str, opts.order, SeedArg(device), entropy, layout)
            /\ log' = IF obs
                      THEN Append(log, [corpus |-> str.str, seed |-> SeedArg(device),
                                        outs |-> <<>>, rngs |-> <<>>])
                      ELSE log
    /\ line' = 0
    /\ pc' = "lines"
    /\ UNCHANGED <<opts, layout, fileIdx, ngram, result, i, printed, mt>>

\* What a read past the end of the text may give.
Garbage == {NUL, 97}

\* The constructor for str.size() < order: text.size() - order wraps, so the loop
\* runs on; every text[i + order] is read out of bounds, and text.substr(i, order)
\* throws std::out_of_range at i = size + 1 unless a read has faulted before.
BuildWrapped(inputs) ==
    /\ pc = "main" /\ fileIdx < MaxFiles
    /\ ~opts.dump
    /\ \E input \in inputs, n \in 0..(MaxLen + 1), g \in Garbage :
        LET str == to_utf32(Lower(input))
            text == str.str
        IN  /\ str.ok
            /\ Len(text) < opts.order
            /\ n <= Len(text) + 1
            /\ corpus' = text
            /\ mc' = [NoEngine EXCEPT
                        !.order = opts.order,
                        !.chain = [k \in 1..n |->
                                     [first |-> ngram_at(text, k - 1, opts.order),
                                      second |-> <<g>>]]]
            /\ pc' = IF n = Len(text) + 1 THEN "terminated" ELSE "crashed"
    /\ UNCHANGED <<opts, layout, fileIdx, line, ngram, result, i, printed, log, mt>>

\* mc.generate(length) is entered.
CallGenerate ==
    /\ pc = "lines" /\ line < opts.lines
    /\ result' = <<>>
    /\ ngram' = <<>>
    /\ i' = 0
    /\ pc' = "seed"
    /\ UNCHANGED <<opts, layout, fileIdx, corpus, mc, line, printed, log, mt>>

\* One call of rng(): r is the value, read from the seed's stream.
Draw(obs, r) ==
    /\ mc.draws < MaxDraws
    /\ obs /\ mc.draws < Len(mt[mc.stream]) => r = mt[mc.stream][mc.draws + 1]
    /\ mt' = IF obs /\ mc.draws >= Len(mt[mc.stream])
             THEN [mt EXCEPT ![mc.stream] = Append(@, r)]
             ELSE mt

\* One pass of the for (;;) loop that looks for a key starting with a space.
SeedPick(obs, values) ==
    /\ pc = "seed"
    /\ Len(mc.chain) > 0
    /\ \E r \in values :
        LET seed == mc.chain[(r % Len(mc.chain)) + 1]
        IN  /\ Draw(obs, r)
            /\ ngram' = seed.first
            /\ IF starts_with_space(seed.first)
               THEN result' = result \o seed.first /\ pc' = "extend"
               ELSE result' = result /\ pc' = "seed"
    /\ mc' = [mc EXCEPT !.draws = @ + 1]
    /\ UNCHANGED <<opts, layout, fileIdx, corpus, line, i, printed, log>>

\* rng() % chain.size() with an empty table divides by zero: the process is killed,
\* or the loop goes on with whatever the quotient and the end iterator give.
SeedPickEmpty ==
    /\ pc = "seed"
    /\ Len(mc.chain) = 0
    /\ mc.draws < MaxDraws
    /\ mc' = [mc EXCEPT !.draws = @ + 1]
    /\ pc' \in {"crashed", "seed"}
    /\ UNCHANGED <<opts, layout, fileIdx, corpus, line, ngram, result, i, printed, log, mt>>

\* One pass of the extension loop that finds the window in the table.
Extend(obs, values) ==
    /\ pc = "extend"
    /\ i < opts.length
    /\ find(mc.chain, ngram) # 0
    /\ \E r \in values :
        LET it == mc.chain[find(mc.chain, ngram)]
            res == Append(result, it.second[(r % Len(it.second)) + 1])
        IN  /\ Draw(obs, r)
            /\ result' = res
            /\ ngram' = next_window(res, i, mc.order)
    /\ i' = i + 1
    /\ mc' = [mc EXCEPT !.chain = find_effect(@, ngram), !.draws = @ + 1]
    /\ UNCHANGED <<opts, layout, fileIdx, corpus, line, pc, printed, log>>

\* The table after the loop is left: a last find when the window is no key.
ChainAtReturn ==
    IF i < opts.length THEN find_effect(mc.chain, ngram) ELSE mc.chain

LoopLeft == pc = "extend" /\ (i >= opts.length \/ find(mc.chain, ngram) = 0)

Logged(obs) ==
    IF obs
    THEN [log EXCEPT ![Len(log)].outs = Append(@, result),
                     ![Len(log)].rngs = Append(@, mc.draws)]
    ELSE log

\* mc.generate returns and the line is printed trimmed.
Return(obs) ==
    /\ LoopLeft
    /\ TrimInBounds(to_utf8(result))
    /\ mc' = [mc EXCEPT !.chain = ChainAtReturn]
    /\ log' = Logged(obs)
    /\ printed' = printed + 1
    /\ line' = line + 1
    /\ pc' = "lines"
    /\ UNCHANGED <<opts, layout, fileIdx, corpus, ngram, result, i, mt>>

\* mc.generate returns blanks alone: trim reads before the string, and the
\* process is killed or prints what the stray bytes leave.
ReturnBlank(obs) ==
    /\ LoopLeft
    /\ ~TrimInBounds(to_utf8(result))
    /\ mc' = [mc EXCEPT !.chain = ChainAtReturn]
    /\ log' = Logged(obs)
    /\ \/ pc' = "crashed" /\ UNCHANGED <<printed, line>>
       \/ pc' = "lines" /\ printed' = printed + 1 /\ line' = line + 1
    /\ UNCHANGED <<opts, layout, fileIdx, corpus, ngram, result, i, mt>>

\* generate(opts, input) returns: the engine is destroyed, main takes the next input.
FinishInput ==
    /\ pc = "lines" /\ line >= opts.lines
    /\ fileIdx' = fileIdx + 1
    /\ corpus' = <<>>
    /\ mc' = NoEngine
    /\ line' = 0
    /\ ngram' = <<>>
    /\ result' = <<>>
    /\ i' = 0
    /\ pc' = "main"
    /\ UNCHANGED <<opts, layout, printed, log, mt>>

\* main returns after the last input.
Exit ==
    /\ pc = "main" /\ fileIdx >= MaxFiles
    /\ pc' = "exit"
    /\ UNCHANGED <<opts, layout, fileIdx, corpus, mc, line, ngram, result, i, printed, log, mt>>

\* ------------------------------------------------- the batch: main with -f
\* No --min-line and no --seed: the text is taken whole and every engine is
\* seeded from std::random_device.
BatchOpts == {o \in Opts : o.min_line = 0 /\ o.seed = NoSeed}

Init == InitOf(BatchOpts)

Next ==
    \/ DumpInput(FALSE, Inputs)
    \/ EncodingError(Inputs)
    \/ Build(FALSE, Inputs)
    \/ BuildWrapped(Inputs)
    \/ CallGenerate
    \/ SeedPick(FALSE, RngValues)
    \/ SeedPickEmpty
    \/ Extend(FALSE, RngValues)
    \/ Return(FALSE)
    \/ ReturnBlank(FALSE)
    \/ FinishInput
    \/ Exit

Spec == Init /\ [][Next]_vars

\* ------------------------------------- the normalizer run on its own output
\* --dump-input prints the normalized text; the next input is that text.
NormOpts ==
    {o \in Opts : o.dump /\ o.order = 1 /\ o.length = 0 /\ o.lines = 1 /\ o.seed = NoSeed}

NormSource == IF fileIdx = 0 THEN NormInputs ELSE {log[Len(log)]}

InitNorm == InitOf(NormOpts)

NextNorm == DumpInput(TRUE, NormSource)

SpecNorm == InitNorm /\ [][NextNorm]_vars

\* --------------------------------------- engines observed call by call
\* The same file is given MaxFiles times with --seed.  Every engine's corpus, seed, outputs
\* and rng position are written down, and every value of a seed's stream is kept
\* for the engines that read it later.
DetInputs == SeqsUpTo({SP, 97}, MaxDetLen)

DetSource == IF Len(log) = 0 THEN DetInputs ELSE {log[1].corpus}

DetRngValues == 0..MaxDetRng

DetOpts ==
    {o \in Opts : /\ ~o.dump /\ o.min_line = 0 /\ ~o.ascii
                  /\ o.length = MaxLength /\ o.lines = MaxLines /\ o.seed = MaxSeed}

InitDet == InitOf(DetOpts)

NextDet ==
    \/ Build(TRUE, DetSource)
    \/ BuildWrapped(DetSource)
    \/ CallGenerate
    \/ SeedPick(TRUE, DetRngValues)
    \/ SeedPickEmpty
    \/ Extend(TRUE, DetRngValues)
    \/ Return(TRUE)
    \/ ReturnBlank(TRUE)
    \/ FinishInput
    \/ Exit

SpecDet == InitDet /\ [][NextDet]_vars

\* ------------------------------------------------------------ properties
EnginePcs == {"lines", "seed", "extend"}

Range(f) == {f[x] : x \in DOMAIN f}

\* The characters that follow the occurrences of key in C, in order of occurrence.
SuccessorsOf(C, k, key) ==
    LET at == SelectSeq([p \in 1..(Len(C) - k) |-> p],
                        LAMBDA p : SubSeq(C, p, p + k - 1) = key)
    IN  [n \in 1..Len(at) |-> C[at[n] + k]]

\* C1: for a corpus longer than the order, every key of the table has length
\* order and every successor list is non-empty, after construction and after any
\* number of generate calls.
C1_KeysWellFormed ==
    (pc \in EnginePcs /\ Len(corpus) > mc.order) =>
        \A j \in 1..Len(mc.chain) :
            Len(mc.chain[j].first) = mc.order /\ Len(mc.chain[j].second) > 0

C1_Witness ==
    /\ pc = "lines" /\ line >= 2
    /\ Len(corpus) > mc.order
    /\ Len(mc.chain) >= 2

\* C2: for a corpus C longer than the order k, the table right after construction
\* holds exactly the windows C[p..p+k) as keys, each once, and maps each to the
\* characters C[p+k] of its occurrences, in increasing p with duplicates kept.
C2_TableIsSuccessorLists ==
    (pc = "lines" /\ line = 0 /\ Len(corpus) > mc.order) =>
        LET C == corpus
            k == mc.order
        IN  /\ {mc.chain[j].first : j \in 1..Len(mc.chain)}
                 = {SubSeq(C, p, p + k - 1) : p \in 1..(Len(C) - k)}
            /\ \A a, b \in 1..Len(mc.chain) :
                 mc.chain[a].first = mc.chain[b].first => a = b
            /\ \A j \in 1..Len(mc.chain) :
                 mc.chain[j].second = SuccessorsOf(C, k, mc.chain[j].first)

C2_Witness ==
    /\ pc = "lines" /\ line = 0
    /\ Len(corpus) > mc.order
    /\ \E j \in 1..Len(mc.chain) :
         /\ Len(mc.chain[j].second) >= 2
         /\ mc.chain[j].second[1] # mc.chain[j].second[2]

\* C3: a corpus no longer than the order is rejected: no table is built for it
\* and generation is never entered.
C3_ShortCorpusRejected ==
    Len(corpus) <= opts.order => (pc \notin EnginePcs /\ Len(mc.chain) = 0)

\* C4: with a table built from a corpus longer than the order, generate enters
\* the seed-selection loop only when some key of the table starts with a space.
C4_SeedLoopHasSpaceKey ==
    (pc = "seed" /\ Len(corpus) > mc.order) => \E j \in 1..Len(mc.chain) : starts_with_space(mc.chain[j].first)

\* C5: engines built from the same corpus, order and seed return the same outputs
\* call by call and are left at the same rng position after each call, and every
\* call moves the rng on.
C5_Deterministic ==
    /\ \A a, b \in 1..Len(log) :
         (log[a].corpus = log[b].corpus /\ log[a].seed = log[b].seed) =>
            \A n \in 1..Min(Len(log[a].outs), Len(log[b].outs)) :
                /\ log[a].outs[n] = log[b].outs[n]
                /\ log[a].rngs[n] = log[b].rngs[n]
    /\ \A a \in 1..Len(log) :
         \A n \in 1..Len(log[a].rngs) :
            log[a].rngs[n] > (IF n = 1 THEN 0 ELSE log[a].rngs[n - 1])

C5_Witness ==
    /\ Len(log) = 2
    /\ log[1].corpus = log[2].corpus /\ log[1].seed = log[2].seed
    /\ Len(log[1].outs) = 2 /\ Len(log[2].outs) = 2
    /\ log[2].outs[1] # log[2].outs[2]

\* C6: for a length that is at least the order, the result of generate never has
\* more than length code points.
C6_ResultWithinLength ==
    (pc = "extend" /\ opts.length >= mc.order) => Len(result) <= opts.length

\* C7: when the program has stopped on a failure, the failing input was the last
\* of the batch: every other input has been processed.
C7_FailureConfined ==
    pc \in {"terminated", "crashed"} => fileIdx = MaxFiles - 1

\* C8 as claimed: normalizing a normalized corpus again, under the same
\* configuration, gives the same corpus.
C8_Idempotent ==
    \A n \in 2..Len(log) : log[n] = log[n - 1]

\* C8 amended: normalizing a normalized corpus again gives the same corpus when
\* that corpus is empty or has at least min_line characters.
C8_IdempotentIfLongEnough ==
    \A n \in 2..Len(log) :
        (Len(log[n - 1]) = 0 \/ Len(log[n - 1]) >= opts.min_line) => log[n] = log[n - 1]

C8_Witness ==
    /\ Len(log) >= 2
    /\ opts.min_line >= 2 /\ opts.ascii
    /\ Len(log[1]) >= opts.min_line
    /\ \E k \in 1..Len(log[1]) : log[1][k] = 97
    /\ log[2] = log[1]

\* C9: the result of generate starts with a key of the table that starts with a
\* space; every later character is a successor of the order characters before it,
\* which are the window; every order+1 consecutive characters occur in the corpus.
C9_OutputIsWalk ==
    pc = "extend" =>
        LET k == mc.order
        IN  /\ Len(result) >= k
            /\ find(mc.chain, SubSeq(result, 1, k)) # 0
            /\ result[1] = SP
            /\ ngram = SubSeq(result, Len(result) - k + 1, Len(result))
            /\ \A p \in (k + 1)..Len(result) :
                 LET w == find(mc.chain, SubSeq(result, p - k, p - 1))
                 IN  w # 0 /\ result[p] \in Range(mc.chain[w].second)
            /\ \A p \in 1..(Len(result) - k) :
                 \E q \in 1..(Len(corpus) - k) :
                    SubSeq(corpus, q, q + k) = SubSeq(result, p, p + k)

C9_Witness ==
    /\ pc = "extend"
    /\ Len(result) >= mc.order + 2

\* C10: no step of generate changes the table or the order, a call that stops
\* early included.
C10_TableReadOnly ==
    [][(pc \in EnginePcs /\ pc' \in EnginePcs) =>
          (mc'.chain = mc.chain /\ mc'.order = mc.order)]_vars

C10_Witness ==
    /\ pc = "lines" /\ line >= 1
    /\ Len(mc.chain) >= 1
    /\ opts.length >= 1
    /\ find(mc.chain, ngram) = 0
    /\ Len(result) < mc.order + opts.length

====
